---- MODULE Spec2Model ----
(***************************************************************************)
(* A model of src-tauri/src/lib.rs: the two Tauri commands greet and       *)
(* fetch_url.  A fetch_url call is a sequence of gates                      *)
(*   parse -> scheme -> build client -> send -> status -> read body         *)
(* and each gate is one step of the call, so that several calls, which the *)
(* host dispatches on separate threads, interleave gate by gate.  The HTTP *)
(* endpoint, the network and the TLS backend are the environment `env`,    *)
(* fixed for a behaviour (a deterministic endpoint).                       *)
(***************************************************************************)
EXTENDS Integers, Sequences, FiniteSets, TLC

\* ------------------------------------------------------------------ bounds

\* Number of fetch_url invocations the dispatcher may have in flight.
NumCalls == 2

\* Longest redirect chain the endpoint answers with (shorter than the
\* HTTP client's own redirect limit).
MaxRedirects == 1

\* Seconds after which a responding endpoint answers (well below the timeout).
SlowLatency == 2

\* Duration::from_secs(20): the client's total request timeout.
TIMEOUT_SECS == 20

Calls == 1..NumCalls

\* ----------------------------------------------------------- text helpers

\* Text that is inspected character by character is a sequence of
\* one-character strings; Text turns it into a string.
RECURSIVE Text(_)
Text(s) == IF s = <<>> THEN "" ELSE Head(s) \o Text(Tail(s))

UpperChars == <<"A","B","C","D","E","F","G","H","I","J","K","L","M",
                "N","O","P","Q","R","S","T","U","V","W","X","Y","Z">>
LowerChars == <<"a","b","c","d","e","f","g","h","i","j","k","l","m",
                "n","o","p","q","r","s","t","u","v","w","x","y","z">>
DigitChars == <<"0","1","2","3","4","5","6","7","8","9">>

Range(s) == {s[i] : i \in DOMAIN s}

IsAlpha(ch) == ch \in Range(UpperChars) \cup Range(LowerChars)
IsSchemeChar(ch) == IsAlpha(ch) \/ ch \in Range(DigitChars) \cup {"+", "-", "."}

\* ASCII lowercase of one character.
ToLower(ch) ==
    IF ch \in Range(UpperChars)
    THEN LowerChars[CHOOSE i \in DOMAIN UpperChars : UpperChars[i] = ch]
    ELSE ch

\* format!: the template's literal pieces with each {} replaced, in order, by
\* the next argument's Display text.
Hole == [hole |-> TRUE, lit |-> ""]
RECURSIVE Format(_, _)
Format(template, args) ==
    IF template = <<>> THEN ""
    ELSE IF Head(template).hole
         THEN Head(args) \o Format(Tail(template), Tail(args))
         ELSE Head(template).lit \o Format(Tail(template), args)

Lit(s) == [hole |-> FALSE, lit |-> s]

\* ------------------------------------------------------------- Url::parse

\* The parser's diagnostics (url::ParseError's Display).
RelativeUrlWithoutBase == "relative URL without a base"
EmptyHost == "empty host"

\* Schemes whose URLs must carry a host.
HostSchemes == {"http", "https", "ws", "wss", "ftp"}

RECURSIVE TrimLeft(_)
TrimLeft(s) == IF s # <<>> /\ Head(s) = " " THEN TrimLeft(Tail(s)) ELSE s
RECURSIVE TrimRight(_)
TrimRight(s) ==
    IF s # <<>> /\ s[Len(s)] = " " THEN TrimRight(SubSeq(s, 1, Len(s) - 1)) ELSE s

RECURSIVE SkipSlashes(_)
SkipSlashes(s) ==
    IF s # <<>> /\ Head(s) \in {"/", "\\"} THEN SkipSlashes(Tail(s)) ELSE s

\* The host: everything up to the first of / ? #.
RECURSIVE HostOf(_)
HostOf(s) ==
    IF s = <<>> \/ Head(s) \in {"/", "?", "#"} THEN <<>>
    ELSE <<Head(s)>> \o HostOf(Tail(s))

\* Position of the colon that ends a well-formed scheme, or 0: the scheme
\* starts with a letter and goes on with letters, digits, +, - and . only.
SchemeEnd(s) ==
    LET colons == {i \in DOMAIN s :
                     /\ s[i] = ":"
                     /\ i > 1
                     /\ IsAlpha(s[1])
                     /\ \A j \in 1..(i - 1) : IsSchemeChar(s[j])}
    IN  IF colons = {} THEN 0 ELSE CHOOSE i \in colons : \A k \in colons : i <= k

ParseOk(scheme, rest) == [ok |-> TRUE, scheme |-> scheme, rest |-> rest, err |-> ""]
ParseErr(e) == [ok |-> FALSE, scheme |-> "", rest |-> <<>>, err |-> e]

\* Url::parse(&url): an absolute URL, its scheme normalised to lower case,
\* or the parser's error.
UrlParse(input) ==
    LET s      == TrimRight(TrimLeft(input))
        n      == SchemeEnd(s)
        scheme == Text([i \in 1..(n - 1) |-> ToLower(s[i])])
        rest   == SubSeq(s, n + 1, Len(s))
    IN  IF n = 0 THEN ParseErr(RelativeUrlWithoutBase)
        ELSE IF scheme \in HostSchemes /\ HostOf(SkipSlashes(rest)) = <<>>
             THEN ParseErr(EmptyHost)
             ELSE ParseOk(scheme, rest)

\* ------------------------------------------------------------ input space

U_http    == <<"h","t","t","p",":","/","/","a">>
U_https   == <<"h","t","t","p","s",":","/","/","a">>
U_HTTP    == <<"H","T","T","P",":","/","/","a">>
U_httpx   == <<"h","t","t","p","x",":","/","/","a">>
U_file    == <<"f","i","l","e",":","/","/","/","p">>
U_ftp     == <<"f","t","p",":","/","/","a","/","x">>
U_js      == <<"j","a","v","a","s","c","r","i","p","t",":","x">>
U_text    == <<"n","o","t"," ","a"," ","u","r","l">>
U_empty   == <<>>
U_nohost  == <<"h","t","t","p",":","/","/">>
U_noscheme == <<":","/","/","a">>

Urls == {U_http, U_https, U_HTTP, U_httpx, U_file, U_ftp, U_js,
         U_text, U_empty, U_nohost, U_noscheme}

\* The inputs of the concurrent specification: one of each class.
ConcUrls == {U_https, U_file, U_text}

\* Arguments of greet.
Names == {"World", ""}

\* What the endpoint, the network and the TLS backend do: the environment
\* of a behaviour.  net is "ok" (the endpoint answers after `latency`
\* seconds, through `redirects` redirect responses, with `status` and
\* `body`; bodyOk tells whether the body can then be read as text),
\* "refused" (the connection fails after `latency` seconds) or "silent"
\* (the endpoint accepts the request and never answers).
Latencies == {0, SlowLatency}
Statuses == {101, 200, 299, 300, 404}
Bodies == {"ok", ""}

Endpoint(net, latency, redirects, status, body, bodyOk) ==
    [net |-> net, latency |-> latency, redirects |-> redirects,
     status |-> status, body |-> body, bodyOk |-> bodyOk]

SilentEndpoint == Endpoint("silent", 0, 0, 200, "", TRUE)
RefusingEndpoints == {Endpoint("refused", l, 0, 200, "", TRUE) : l \in Latencies}
AnsweringEndpoints ==
    {Endpoint("ok", l, r, s, b, k) :
        l \in Latencies, r \in 0..MaxRedirects, s \in Statuses,
        b \in Bodies, k \in BOOLEAN}

Endpoints == {SilentEndpoint} \cup RefusingEndpoints \cup AnsweringEndpoints

ConcEndpoints ==
    {SilentEndpoint, Endpoint("refused", 0, 0, 200, "", TRUE)} \cup
    {Endpoint("ok", 0, r, s, "ok", k) :
        r \in 0..MaxRedirects, s \in {200, 404}, k \in BOOLEAN}

\* ------------------------------------------------------------------ state

VARIABLES
    env,        \* [tlsOk, ep]: the TLS backend and the endpoint's behaviour
    pc,         \* pc[c]: the gate call c is at
    url,        \* url[c]: the call's argument
    parsed,     \* parsed[c]: `parsed`, the Url of line 14
    client,     \* client[c]: `client`, the Client of line 21
    response,   \* response[c]: `response`, the Response of line 27
    result,     \* result[c]: the Result<String, String> the call returns
    elapsed,    \* elapsed[c]: seconds since the call's request was sent
    sends,      \* sends[c]: how often the call ran send()
    requests,   \* requests[c]: GET requests put on the network for the call
    trace,      \* trace[c]: the gates the call evaluated, in order
    greeted     \* the last greet call: its argument and its return value

callvars == <<pc, url, parsed, client, response, result, elapsed, sends,
              requests, trace>>
vars == <<env, pc, url, parsed, client, response, result, elapsed, sends,
          requests, trace, greeted>>

NoUrl == ParseErr("")
NoClient == [built |-> FALSE, timeout |-> 0, user_agent |-> ""]
NoResponse == [present |-> FALSE, status |-> 0, body |-> ""]
NoResult == [returned |-> FALSE, ok |-> FALSE, kind |-> "", text |-> ""]
NoGreeting == [called |-> FALSE, name |-> "", ret |-> ""]

\* Result<String, String>: Ok(text) and Err(text).  kind names the gate
\* whose error it is; the code returns the text alone.
Ok(text) == [returned |-> TRUE, ok |-> TRUE, kind |-> "Ok", text |-> text]
Err(kind, text) == [returned |-> TRUE, ok |-> FALSE, kind |-> kind, text |-> text]

InitWith(envs) ==
    /\ env \in envs
    /\ pc = [c \in Calls |-> "idle"]
    /\ url = [c \in Calls |-> <<>>]
    /\ parsed = [c \in Calls |-> NoUrl]
    /\ client = [c \in Calls |-> NoClient]
    /\ response = [c \in Calls |-> NoResponse]
    /\ result = [c \in Calls |-> NoResult]
    /\ elapsed = [c \in Calls |-> 0]
    /\ sends = [c \in Calls |-> 0]
    /\ requests = [c \in Calls |-> 0]
    /\ trace = [c \in Calls |-> <<>>]
    /\ greeted = NoGreeting

Init == InitWith([tlsOk : BOOLEAN, ep : Endpoints])

ConcInit == InitWith([tlsOk : BOOLEAN, ep : ConcEndpoints])

\* ------------------------------------------------------------------ greet

GreetTemplate == <<Lit("Hello, "), Hole, Lit("! You've been greeted from Rust!")>>

\* Variant of GreetText that drops the argument.
GreetTextNoName(name) == Format(GreetTemplate, <<"">>)

\* format!("Hello, {}! You've been greeted from Rust!", name)
GreetText(name) == Format(GreetTemplate, <<name>>)

Greet(name) ==
    /\ greeted' = [called |-> TRUE, name |-> name, ret |-> GreetText(name)]
    /\ UNCHANGED <<env, callvars>>

\* -------------------------------------------------------------- fetch_url

Visit(c, gate) == trace' = [trace EXCEPT ![c] = Append(@, gate)]
Goto(c, label) == pc' = [pc EXCEPT ![c] = label]
Return(c, r) ==
    /\ result' = [result EXCEPT ![c] = r]
    /\ pc' = [pc EXCEPT ![c] = "done"]

\* The dispatcher invokes fetch_url(url).
Invoke(c, u) ==
    /\ pc[c] = "idle"
    /\ url' = [url EXCEPT ![c] = u]
    /\ Goto(c, "parse")
    /\ UNCHANGED <<env, parsed, client, response, result, elapsed, sends,
                   requests, trace, greeted>>

\* Variant of InvalidUrl that drops the parser's diagnostic.
InvalidUrlNoDiagnostic(err) == Err("InvalidUrl", "Invalid URL")

\* format!("Invalid URL: {err}")
InvalidUrl(err) == Err("InvalidUrl", Format(<<Lit("Invalid URL: "), Hole>>, <<err>>))

\* let parsed = Url::parse(&url).map_err(...)?;
ParseUrl(c) ==
    /\ pc[c] = "parse"
    /\ Visit(c, "parse")
    /\ LET p == UrlParse(url[c])
       IN  IF p.ok
           THEN /\ parsed' = [parsed EXCEPT ![c] = p]
                /\ Goto(c, "scheme")
                /\ UNCHANGED result
           ELSE /\ Return(c, InvalidUrl(p.err))
                /\ UNCHANGED parsed
    /\ UNCHANGED <<env, url, client, response, elapsed, sends, requests, greeted>>

\* Variant of SchemeAllowed that lets ftp and file through.
SchemeAllowedLax(scheme) == scheme \in {"http", "https", "ftp", "file"}

\* "http" | "https" => {}
SchemeAllowed(scheme) == scheme \in {"http", "https"}

SchemeNotAllowed == Err("Scheme", "Only http and https schemes are allowed")

\* match parsed.scheme() { ... _ => return Err(...) }
CheckScheme(c) ==
    /\ pc[c] = "scheme"
    /\ Visit(c, "scheme")
    /\ IF SchemeAllowed(parsed[c].scheme)
       THEN Goto(c, "build") /\ UNCHANGED result
       ELSE Return(c, SchemeNotAllowed)
    /\ UNCHANGED <<env, url, parsed, client, response, elapsed, sends,
                   requests, greeted>>

ClientBuildFailed(cause) ==
    Err("ClientBuild", Format(<<Lit("Failed to build HTTP client: "), Hole>>, <<cause>>))

\* Client::builder().timeout(20 s).user_agent(...).build()
BuiltClient ==
    [built |-> TRUE, timeout |-> TIMEOUT_SECS, user_agent |-> "OpenChat-WebSearch/1.0"]

\* Variant of BuildClient that goes on to send when the build fails.
BuildClientIgnoringFailure(c) ==
    /\ pc[c] = "build"
    /\ Visit(c, "build")
    /\ client' = [client EXCEPT ![c] = BuiltClient]
    /\ Goto(c, "send")
    /\ UNCHANGED <<env, url, parsed, response, result, elapsed, sends,
                   requests, greeted>>

\* Variant of BuildClient with one process-wide client: a later build fails.
BuildClientOnce(c) ==
    /\ pc[c] = "build"
    /\ Visit(c, "build")
    /\ IF env.tlsOk /\ \A d \in Calls : ~client[d].built
       THEN /\ client' = [client EXCEPT ![c] = BuiltClient]
            /\ Goto(c, "send")
            /\ UNCHANGED result
       ELSE /\ Return(c, ClientBuildFailed("builder error"))
            /\ UNCHANGED client
    /\ UNCHANGED <<env, url, parsed, response, elapsed, sends, requests, greeted>>

\* let client = Client::builder()...build().map_err(...)?;
BuildClient(c) ==
    /\ pc[c] = "build"
    /\ Visit(c, "build")
    /\ IF env.tlsOk
       THEN /\ client' = [client EXCEPT ![c] = BuiltClient]
            /\ Goto(c, "send")
            /\ UNCHANGED result
       ELSE /\ Return(c, ClientBuildFailed("builder error"))
            /\ UNCHANGED client
    /\ UNCHANGED <<env, url, parsed, response, elapsed, sends, requests, greeted>>

\* client.get(parsed.clone()).send(): the request goes out and the call
\* blocks until send() returns.
Send(c) ==
    /\ pc[c] = "send"
    /\ Visit(c, "send")
    /\ sends' = [sends EXCEPT ![c] = @ + 1]
    /\ requests' = [requests EXCEPT ![c] = @ + 1]
    /\ elapsed' = [elapsed EXCEPT ![c] = 0]
    /\ Goto(c, "wait")
    /\ UNCHANGED <<env, url, parsed, client, response, result, greeted>>

\* The endpoint's answer (or the connection's failure) is there.
Arrived(c) == env.ep.net # "silent" /\ elapsed[c] = env.ep.latency

\* Variant of TimedOut with a one-second timeout.
TimedOutEarly(c) == elapsed[c] >= 1

\* .timeout(Duration::from_secs(20)): the whole request has taken that long.
TimedOut(c) == elapsed[c] >= client[c].timeout

\* Variant of Tick with one clock shared by all waiting calls.
TickAll(c) ==
    /\ pc[c] = "wait"
    /\ ~Arrived(c)
    /\ ~TimedOut(c)
    /\ elapsed' = [d \in Calls |->
                     IF pc[d] = "wait" /\ elapsed[d] < client[d].timeout
                     THEN elapsed[d] + 1 ELSE elapsed[d]]
    /\ UNCHANGED <<env, pc, url, parsed, client, response, result, sends,
                   requests, trace, greeted>>

\* A second passes while send() waits.
Tick(c) ==
    /\ pc[c] = "wait"
    /\ ~Arrived(c)
    /\ ~TimedOut(c)
    /\ elapsed' = [elapsed EXCEPT ![c] = @ + 1]
    /\ UNCHANGED <<env, pc, url, parsed, client, response, result, sends,
                   requests, trace, greeted>>

\* Inside send(): the client (built with the default redirect policy)
\* answers a redirect response with a further GET.
Redirect(c) ==
    /\ pc[c] = "wait"
    /\ Arrived(c)
    /\ ~TimedOut(c)
    /\ env.ep.net = "ok"
    /\ requests[c] - 1 < env.ep.redirects
    /\ requests' = [requests EXCEPT ![c] = @ + 1]
    /\ UNCHANGED <<env, pc, url, parsed, client, response, result, elapsed,
                   sends, trace, greeted>>

\* send() returns Ok(response).
Receive(c) ==
    /\ pc[c] = "wait"
    /\ Arrived(c)
    /\ ~TimedOut(c)
    /\ env.ep.net = "ok"
    /\ requests[c] - 1 = env.ep.redirects
    /\ response' = [response EXCEPT ![c] =
                      [present |-> TRUE, status |-> env.ep.status, body |-> env.ep.body]]
    /\ Goto(c, "status")
    /\ UNCHANGED <<env, url, parsed, client, result, elapsed, sends, requests,
                   trace, greeted>>

RequestFailed(cause) ==
    Err("Transport", Format(<<Lit("Request failed: "), Hole>>, <<cause>>))

\* Variant of SendError that sends the request a second time.
SendErrorRetried(c, cause) ==
    IF sends[c] < 2
    THEN Goto(c, "send") /\ UNCHANGED result
    ELSE Return(c, RequestFailed(cause))

\* .send().map_err(|err| format!("Request failed: {err}"))?
SendError(c, cause) == Return(c, RequestFailed(cause))

\* send() returns Err: the connection failed.
ConnectFails(c) ==
    /\ pc[c] = "wait"
    /\ Arrived(c)
    /\ ~TimedOut(c)
    /\ env.ep.net = "refused"
    /\ SendError(c, "connection refused")
    /\ UNCHANGED <<env, url, parsed, client, response, elapsed, sends,
                   requests, trace, greeted>>

\* send() returns Err: the client's timeout expired.
Timeout(c) ==
    /\ pc[c] = "wait"
    /\ TimedOut(c)
    /\ SendError(c, "operation timed out")
    /\ UNCHANGED <<env, url, parsed, client, response, elapsed, sends,
                   requests, trace, greeted>>

\* StatusCode's Display: the number and the canonical reason phrase.
Reason(status) ==
    CASE status = 101 -> "Switching Protocols"
      [] status = 200 -> "OK"
      [] status = 300 -> "Multiple Choices"
      [] status = 404 -> "Not Found"
      [] OTHER -> "<unknown status code>"

StatusDisplay(status) == ToString(status) \o " " \o Reason(status)

\* Variant of IsSuccess that accepts 3xx as well.
IsSuccessOrRedirect(status) == 200 <= status /\ status < 400

\* response.status().is_success()
IsSuccess(status) == 200 <= status /\ status < 300

\* format!("Request failed with status {}", response.status())
StatusFailed(status) ==
    Err("Status", Format(<<Lit("Request failed with status "), Hole>>,
                         <<StatusDisplay(status)>>))

\* if !response.status().is_success() { return Err(...) }
CheckStatus(c) ==
    /\ pc[c] = "status"
    /\ Visit(c, "status")
    /\ IF IsSuccess(response[c].status)
       THEN Goto(c, "text") /\ UNCHANGED result
       ELSE Return(c, StatusFailed(response[c].status))
    /\ UNCHANGED <<env, url, parsed, client, response, elapsed, sends,
                   requests, greeted>>

BodyReadFailed(cause) ==
    Err("BodyRead", Format(<<Lit("Failed to read response body: "), Hole>>, <<cause>>))

\* Variant of ResponseText that returns an empty body.
ResponseTextTrimmed(resp, readable) ==
    IF readable THEN Ok("") ELSE BodyReadFailed("error decoding response body")

\* response.text().map_err(...)
ResponseText(resp, readable) ==
    IF readable THEN Ok(resp.body) ELSE BodyReadFailed("error decoding response body")

ReadBody(c) ==
    /\ pc[c] = "text"
    /\ Visit(c, "body")
    /\ Return(c, ResponseText(response[c], env.ep.bodyOk))
    /\ UNCHANGED <<env, url, parsed, client, response, elapsed, sends,
                   requests, greeted>>

\* ---------------------------------------------------------- specifications

\* The steps of call c once it is invoked.
Run(c) ==
    \/ ParseUrl(c)
    \/ CheckScheme(c)
    \/ BuildClient(c)
    \/ Send(c)
    \/ Tick(c)
    \/ Redirect(c)
    \/ Receive(c)
    \/ ConnectFails(c)
    \/ Timeout(c)
    \/ CheckStatus(c)
    \/ ReadBody(c)

\* One fetch_url call over every input and environment, and greet.
Next ==
    \/ \E u \in Urls : Invoke(1, u)
    \/ Run(1)
    \/ \E n \in Names : Greet(n)

Spec == Init /\ [][Next]_vars

\* One fetch_url call whose thread keeps running while time keeps passing,
\* over every input, against every kind of endpoint behaviour.
FairEndpoints ==
    {SilentEndpoint} \cup RefusingEndpoints \cup
    {Endpoint("ok", l, r, s, "ok", k) :
        l \in Latencies, r \in 0..MaxRedirects, s \in {200, 404}, k \in BOOLEAN}

FairInit == InitWith([tlsOk : BOOLEAN, ep : FairEndpoints])

FairNext ==
    \/ \E u \in Urls : Invoke(1, u)
    \/ Run(1)

FairSpec == FairInit /\ [][FairNext]_vars /\ WF_vars(Run(1))

\* NumCalls concurrent fetch_url calls.
ConcNext ==
    \E c \in Calls :
        \/ \E u \in ConcUrls : Invoke(c, u)
        \/ Run(c)

ConcSpec == ConcInit /\ [][ConcNext]_vars

\* ------------------------------------------------------------- properties

Done(c) == pc[c] = "done"
Invoked(c) == pc[c] # "idle"
Visited(c, gate) == \E i \in DOMAIN trace[c] : trace[c][i] = gate

\* C1: an input that parses as a URL whose scheme is neither http nor https
\* never gets a client built nor a request sent, and the call returns the
\* fixed error "Only http and https schemes are allowed".
C1_SchemeRejected ==
    \A c \in Calls :
        LET p == UrlParse(url[c])
        IN  (Invoked(c) /\ p.ok /\ p.scheme \notin {"http", "https"}) =>
                /\ ~client[c].built
                /\ ~Visited(c, "build")
                /\ sends[c] = 0
                /\ requests[c] = 0
                /\ Done(c) =>
                       /\ ~result[c].ok
                       /\ result[c].text = "Only http and https schemes are allowed"

C1_Witness ==
    \E c \in Calls :
        /\ Done(c)
        /\ url[c] = U_file
        /\ env.tlsOk
        /\ env.ep.net = "ok"
        /\ result[c].text = "Only http and https schemes are allowed"
        /\ requests[c] = 0

\* C2: an input that does not parse as an absolute URL yields the error
\* "Invalid URL: <parser diagnostic>"; no Url exists for it, and the scheme
\* check, the client build and the send are never reached.
C2_InvalidUrl ==
    \A c \in Calls :
        LET p == UrlParse(url[c])
        IN  (Invoked(c) /\ ~p.ok) =>
                /\ ~parsed[c].ok
                /\ trace[c] \in {<<>>, <<"parse">>}
                /\ ~client[c].built
                /\ sends[c] = 0
                /\ requests[c] = 0
                /\ Done(c) =>
                       /\ ~result[c].ok
                       /\ result[c].text = "Invalid URL: " \o p.err
                       /\ p.err \in {RelativeUrlWithoutBase, EmptyHost}

C2_Witness ==
    \E c \in Calls :
        /\ Done(c)
        /\ url[c] = U_text
        /\ env.tlsOk
        /\ result[c].text = "Invalid URL: relative URL without a base"

\* C3: when the GET completes with a status outside 200-299 the call returns
\* "Request failed with status <status>", which carries the numeric code,
\* and the body is neither read nor returned.
C3_StatusFailure ==
    \A c \in Calls :
        (response[c].present /\ response[c].status \notin 200..299) =>
            /\ pc[c] # "text"
            /\ ~Visited(c, "body")
            /\ Done(c) =>
                   /\ ~result[c].ok
                   /\ result[c].text =
                          "Request failed with status "
                              \o ToString(response[c].status)
                              \o " " \o Reason(response[c].status)

C3_Witness ==
    \E c \in Calls :
        /\ Done(c)
        /\ response[c].present
        /\ response[c].status = 404
        /\ response[c].body = "ok"
        /\ result[c].text = "Request failed with status 404 Not Found"

\* C4: when the GET of an http/https URL completes with a 2xx status and a
\* body that reads as text, the call returns Ok with exactly that body.
C4_BodyReturned ==
    \A c \in Calls :
        (/\ Done(c)
         /\ response[c].present
         /\ response[c].status \in 200..299
         /\ env.ep.bodyOk) =>
            /\ result[c].ok
            /\ result[c].text = env.ep.body
            /\ UrlParse(url[c]).scheme \in {"http", "https"}

C4_Witness ==
    \E c \in Calls :
        /\ Done(c)
        /\ url[c] = U_HTTP
        /\ response[c].status = 200
        /\ result[c].ok
        /\ result[c].text = "ok"

\* C5: the gates are evaluated in the order parse, scheme, build, send,
\* status, body; the error returned is that of the first gate that fails,
\* and no gate is evaluated after a failure.
GateOrder == <<"parse", "scheme", "build", "send", "status", "body">>

GateError(gate) ==
    CASE gate = "parse"  -> "InvalidUrl"
      [] gate = "scheme" -> "Scheme"
      [] gate = "build"  -> "ClientBuild"
      [] gate = "send"   -> "Transport"
      [] gate = "status" -> "Status"
      [] gate = "body"   -> "BodyRead"

\* Whether the gate fails for input u in this environment.
GateFails(gate, u) ==
    CASE gate = "parse"  -> ~UrlParse(u).ok
      [] gate = "scheme" -> UrlParse(u).scheme \notin {"http", "https"}
      [] gate = "build"  -> ~env.tlsOk
      [] gate = "send"   -> env.ep.net # "ok"
      [] gate = "status" -> env.ep.status \notin 200..299
      [] gate = "body"   -> ~env.ep.bodyOk

C5_GateOrder ==
    \A c \in Calls :
        LET n == Len(trace[c])
        IN  /\ n <= Len(GateOrder)
            /\ trace[c] = SubSeq(GateOrder, 1, n)
            /\ \A i \in 1..(n - 1) : ~GateFails(trace[c][i], url[c])
            /\ (Done(c) /\ ~result[c].ok) =>
                   /\ n >= 1
                   /\ GateFails(trace[c][n], url[c])
                   /\ result[c].kind = GateError(trace[c][n])
            /\ (Done(c) /\ result[c].ok) =>
                   /\ trace[c] = GateOrder
                   /\ ~GateFails("body", url[c])
            /\ (Invoked(c) /\ ~env.tlsOk) => sends[c] = 0 /\ requests[c] = 0

C5_Witness ==
    \E c \in Calls :
        /\ Done(c)
        /\ ~env.tlsOk
        /\ env.ep.net = "refused"
        /\ trace[c] = <<"parse", "scheme", "build">>
        /\ result[c].kind = "ClientBuild"

\* C6, as stated: a call puts exactly one GET on the network once it
\* reaches the send step, and none otherwise.
C6_OneRequest ==
    \A c \in Calls :
        /\ requests[c] <= 1
        /\ Visited(c, "send") => requests[c] = 1

\* C6, amended: a call runs send() exactly once if it reaches the send step
\* and never otherwise; it never sends again after a transport failure, a
\* non-2xx status or a body-read failure; the only further GETs are those
\* the HTTP client issues inside that one send() to follow the endpoint's
\* redirects.
C6_Sends ==
    \A c \in Calls :
        /\ sends[c] = (IF Visited(c, "send") THEN 1 ELSE 0)
        /\ requests[c] >= sends[c]
        /\ requests[c] <= sends[c] + env.ep.redirects
        /\ requests[c] > 1 => env.ep.net = "ok"
        /\ pc[c] \in {"status", "text", "done"} /\ response[c].present =>
               requests[c] = 1 + env.ep.redirects

C6_NoResend ==
    \A c \in Calls :
        pc[c] \in {"status", "text", "done"} =>
            /\ sends'[c] = sends[c]
            /\ requests'[c] = requests[c]

\* C6, amended: the invariant and the step property together.
C6_SendOnce == []C6_Sends /\ [][C6_NoResend]_vars

C6_Witness ==
    \E c \in Calls :
        /\ Done(c)
        /\ sends[c] = 1
        /\ requests[c] = 2
        /\ result[c].kind = "Status"

\* C7: every call returns; against an endpoint that never answers it returns
\* the transport error when the 20-second timeout expires, not before, and
\* no request is waited for longer than the timeout.
C7_TimeoutSafety ==
    \A c \in Calls :
        /\ elapsed[c] <= TIMEOUT_SECS
        /\ (Done(c) /\ Visited(c, "send") /\ env.ep.net = "silent") =>
               /\ elapsed[c] = TIMEOUT_SECS
               /\ ~result[c].ok
               /\ result[c].text = "Request failed: operation timed out"
        /\ (Done(c) /\ result[c].text = "Request failed: operation timed out") =>
               elapsed[c] = TIMEOUT_SECS

C8_SameOutcome ==
    \A c, d \in Calls :
        (Done(c) /\ Done(d) /\ url[c] = url[d]) =>
            /\ result[c].ok = result[d].ok
            /\ result[c].kind = result[d].kind

C8_Witness ==
    \E c, d \in Calls :
        /\ c # d
        /\ Done(c) /\ Done(d)
        /\ url[c] = U_https /\ url[d] = U_https
        /\ result[c].kind = "BodyRead"
        /\ result[d].kind = "BodyRead"

\* C9: concurrent calls are independent.  What a call returns alone, gate
\* by gate, for input u in this environment:
Alone(u) ==
    LET p == UrlParse(u)
    IN  IF ~p.ok THEN Err("InvalidUrl", "Invalid URL: " \o p.err)
        ELSE IF p.scheme \notin {"http", "https"}
        THEN Err("Scheme", "Only http and https schemes are allowed")
        ELSE IF ~env.tlsOk
        THEN Err("ClientBuild", "Failed to build HTTP client: builder error")
        ELSE IF env.ep.net = "refused"
        THEN Err("Transport", "Request failed: connection refused")
        ELSE IF env.ep.net = "silent"
        THEN Err("Transport", "Request failed: operation timed out")
        ELSE IF env.ep.status \notin 200..299
        THEN Err("Status", "Request failed with status "
                              \o ToString(env.ep.status) \o " " \o Reason(env.ep.status))
        ELSE IF ~env.ep.bodyOk
        THEN Err("BodyRead", "Failed to read response body: error decoding response body")
        ELSE Ok(env.ep.body)

\* The state of call c.
Local(c) == <<pc[c], url[c], parsed[c], client[c], response[c], result[c],
              elapsed[c], sends[c], requests[c], trace[c]>>

C9_AsAlone ==
    \A c \in Calls :
        /\ Done(c) => result[c] = Alone(url[c])
        /\ client[c].built => client[c] = BuiltClient
        /\ Visited(c, "send") => client[c].built /\ sends[c] = 1

C9_OwnStateOnly ==
    \A c, d \in Calls : (Local(c)' # Local(c) /\ Local(d)' # Local(d)) => c = d

\* C9: under every interleaving each call builds its own client, sends its
\* own request and returns what it returns alone, and no step of one call
\* changes the state of another.
C9_Independent == []C9_AsAlone /\ [][C9_OwnStateOnly]_vars

C9_Witness ==
    \E c, d \in Calls :
        /\ c # d
        /\ Done(c)
        /\ result[c].kind = "Status"
        /\ pc[d] = "wait"
        /\ requests[d] = 2
        /\ client[c].built /\ client[d].built

\* C10: greet(name) returns "Hello, " + name + "! You've been greeted from
\* Rust!", a function of name alone, and changes nothing else.
C10_Text ==
    greeted.called =>
        /\ greeted.ret = "Hello, " \o greeted.name \o "! You've been greeted from Rust!"
        /\ greeted.name = "World" =>
               greeted.ret = "Hello, World! You've been greeted from Rust!"

C10_NoSideEffect == greeted' # greeted => UNCHANGED <<env, callvars>>

\* C10: the text returned, and no side effect.
C10_Greet == []C10_Text /\ [][C10_NoSideEffect]_vars

C10_Witness ==
    /\ greeted.called
    /\ greeted.name = "World"
    /\ greeted.ret = "Hello, World! You've been greeted from Rust!"
    /\ pc[1] = "wait"

====
